---- MODULE Spec2Model ----
(***************************************************************************)
(* A model of neovide's runtime core: the command queue and dispatch loop  *)
(* of the process bridge (src/bridge/mod.rs), the redraw scheduler         *)
(* (src/redraw_scheduler.rs), the settings it reads (src/settings.rs) and  *)
(* the cursor renderer's blink state machine and command-line delay        *)
(* (src/renderer/cursor_renderer.rs).                                      *)
(*                                                                         *)
(* Time is a natural number of milliseconds (Instant / Duration).          *)
(* Option<T> is a sequence of length 0 (None) or 1 (Some).                 *)
(***************************************************************************)
EXTENDS Integers, Sequences, FiniteSets, TLC

\* ------------------------------------------------------------------------
\* Bounds of the model
\* ------------------------------------------------------------------------

\* The clock stops advancing at MaxTime.
MaxTime == 4

\* The largest value a "setting changed" notification carries for
\* extra_buffer_frames (after the u16 cast).
MaxFrames == 3

\* The number of UiCommands the window system queues.
MaxCommands == 3

\* The number of UiCommands the window system queues in the runs in which
\* the runtime's scheduling is fair.
FairCommands == 2

\* The longest blink delay of a cursor, in milliseconds.
MaxDelay == 2

\* The number of rows of the editor's grid (EDITOR.grid.height).
GridHeight == 3

\* The number of frames drawn.
MaxDraws == 6

\* ------------------------------------------------------------------------
\* Option<T>
\* ------------------------------------------------------------------------

None == << >>

Some(x) == << x >>

IsSome(o) == o # None

Unwrap(o) == o[1]

SetMin(S) == CHOOSE x \in S : \A y \in S : x <= y

\* ------------------------------------------------------------------------
\* Settings (src/settings.rs)
\* ------------------------------------------------------------------------

\* u16 arithmetic: a cast `as u16` keeps the low 16 bits.
U16Modulus == 65536

\* buffer_frames when --extraBufferFrames is passed.
ExtraBufferFramesArg == 60

\* buffer_frames otherwise.
DefaultBufferFrames == 1

Bool(b) == [type |-> "Bool", value |-> IF b THEN 1 ELSE 0]

U16(v) == [type |-> "U16", value |-> v]

\* A msgpack value as the RPC layer delivers it.  Only a non-negative Integer
\* converts to u64 (value.try_into()).
Integer(n) == [tag |-> "Integer", v |-> n]

Boolean(b) == [tag |-> "Boolean", v |-> IF b THEN 1 ELSE 0]

\* A msgpack string.
StringValue(text) == [tag |-> "String", text |-> text]

\* The names of the settings.
SettingNames == { "no_idle", "extra_buffer_frames" }

\* name.try_into().ok(): only a string converts to String.
try_into_string(value) == IF value.tag = "String" THEN Some(value.text) ELSE None

try_into_u64(value) ==
    IF value.tag = "Integer" /\ value.v >= 0 THEN Some(value.v) ELSE None

\* A parse that stores zero for a value that does not convert.
parse_unconverted_as_zero(setting, value) ==
    LET converted == try_into_u64(value) IN
    IF setting.type = "Bool"
    THEN Bool(IsSome(converted) /\ Unwrap(converted) # 0)
    ELSE U16(IF IsSome(converted) THEN Unwrap(converted) % U16Modulus ELSE 0)

\* Setting::parse
parse(setting, value) ==
    LET converted == try_into_u64(value) IN
    IF ~IsSome(converted) THEN setting
    ELSE IF setting.type = "Bool"
         THEN Bool(Unwrap(converted) # 0)
         ELSE U16(Unwrap(converted) % U16Modulus)

\* Setting::read_bool; a U16 setting panics.
read_bool(setting) == IF setting.type = "Bool" THEN Some(setting.value) ELSE None

\* Setting::read_u16; a Bool setting panics.
read_u16(setting) == IF setting.type = "U16" THEN Some(setting.value) ELSE None

\* Settings::new, from the command-line arguments.
SettingsNew(args) ==
    [ no_idle |-> Bool("--noIdle" \in args),
      extra_buffer_frames |->
          U16(IF "--extraBufferFrames" \in args
              THEN ExtraBufferFramesArg ELSE DefaultBufferFrames) ]

\* The values a "setting_changed" notification may carry.
NotifiedValues ==
    { Integer(n) : n \in 0 .. MaxFrames }
        \cup { Integer(U16Modulus + 2), Integer(-1), Boolean(TRUE) }

\* ------------------------------------------------------------------------
\* Redraw scheduler (src/redraw_scheduler.rs), as functions of its fields
\* ------------------------------------------------------------------------

\* RedrawScheduler::new
NewFramesQueued == 1

schedule_keep_latest(scheduled, new_scheduled) ==
    IF IsSome(scheduled)
    THEN IF new_scheduled > Unwrap(scheduled) THEN Some(new_scheduled) ELSE scheduled
    ELSE Some(new_scheduled)

\* RedrawScheduler::schedule: the new value of scheduled_frame.
schedule(scheduled, new_scheduled) ==
    IF IsSome(scheduled)
    THEN IF new_scheduled < Unwrap(scheduled) THEN Some(new_scheduled) ELSE scheduled
    ELSE Some(new_scheduled)

queue_next_frame_add(queued, buffer_frames) == (queued + buffer_frames) % U16Modulus

\* RedrawScheduler::queue_next_frame: the new value of frames_queued.
queue_next_frame(queued, buffer_frames) == buffer_frames

should_draw_keep_deadline(queued, scheduled, t) ==
    IF queued > 0
    THEN [ret |-> TRUE, frames_queued |-> queued - 1, scheduled_frame |-> scheduled]
    ELSE IF IsSome(scheduled) /\ Unwrap(scheduled) < t
         THEN [ret |-> TRUE, frames_queued |-> queued, scheduled_frame |-> scheduled]
         ELSE [ret |-> FALSE, frames_queued |-> queued, scheduled_frame |-> scheduled]

\* A should_draw that consumes an elapsed deadline along with a credit.
should_draw_credit_clears_elapsed(queued, scheduled, t) ==
    IF queued > 0
    THEN [ret |-> TRUE, frames_queued |-> queued - 1,
          scheduled_frame |-> IF IsSome(scheduled) /\ Unwrap(scheduled) < t
                              THEN None ELSE scheduled]
    ELSE IF IsSome(scheduled) /\ Unwrap(scheduled) < t
         THEN [ret |-> TRUE, frames_queued |-> queued, scheduled_frame |-> None]
         ELSE [ret |-> FALSE, frames_queued |-> queued, scheduled_frame |-> scheduled]

\* RedrawScheduler::should_draw called at time t: the value returned and the
\* new values of the two fields.
should_draw(queued, scheduled, t) ==
    IF queued > 0
    THEN [ret |-> TRUE, frames_queued |-> queued - 1, scheduled_frame |-> scheduled]
    ELSE IF IsSome(scheduled) /\ Unwrap(scheduled) < t
         THEN [ret |-> TRUE, frames_queued |-> queued, scheduled_frame |-> None]
         ELSE [ret |-> FALSE, frames_queued |-> queued, scheduled_frame |-> scheduled]

\* ------------------------------------------------------------------------
\* Process bridge (src/bridge/mod.rs): the order of dispatch of one batch
\* ------------------------------------------------------------------------

\* UiCommand::is_resize
is_resize(command) == command.resize

is_other(command) == ~is_resize(command)

\* resize_list.into_iter().last()
last(list) == IF list = << >> THEN None ELSE Some(list[Len(list)])

dispatch_order_first_resize(commands) ==
    LET resize_list == SelectSeq(commands, is_resize)
        other_commands == SelectSeq(commands, is_other)
    IN  (IF resize_list = << >> THEN << >> ELSE << resize_list[1] >>) \o other_commands

dispatch_order_resize_last(commands) ==
    LET resize_list == SelectSeq(commands, is_resize)
        other_commands == SelectSeq(commands, is_other)
    IN  other_commands \o last(resize_list)

\* A dispatch order that drops the other commands of a batch with a resize.
dispatch_order_resize_only(commands) ==
    LET resize_list == SelectSeq(commands, is_resize)
        other_commands == SelectSeq(commands, is_other)
    IN  IF resize_list = << >> THEN other_commands ELSE last(resize_list)

\* The commands the dispatch loop spawns a task for, in the order it spawns
\* them: partition into resizes and others, keep the last resize, chain the
\* others after it.
dispatch_order(commands) ==
    LET resize_list == SelectSeq(commands, is_resize)
        other_commands == SelectSeq(commands, is_other)
    IN  last(resize_list) \o other_commands

\* ------------------------------------------------------------------------
\* Blink state machine (src/renderer/cursor_renderer.rs), as functions
\* ------------------------------------------------------------------------

\* The fields of editor::Cursor the renderer reads.
Cursor(position, shape, blinkwait, blinkon, blinkoff) ==
    [position |-> position, shape |-> shape, enabled |-> TRUE,
     blinkwait |-> blinkwait, blinkon |-> blinkon, blinkoff |-> blinkoff,
     cell_percentage |-> None]

\* A cycle that goes back to Waiting after Off.
next_state_through_waiting(blink_state) ==
    CASE blink_state = "Waiting" -> "On"
      [] blink_state = "On" -> "Off"
      [] blink_state = "Off" -> "Waiting"

\* BlinkState::next_state
next_state(blink_state) ==
    CASE blink_state = "Waiting" -> "On"
      [] blink_state = "On" -> "Off"
      [] blink_state = "Off" -> "On"

\* BlinkStatus::new, constructed at time t.
NewBlinkStatus(t) ==
    [state |-> "Waiting", last_transition |-> t, previous_cursor |-> None]

\* A reset made for the first cursor only.
reset_on_change_first_only(status, new_cursor, t) ==
    IF ~IsSome(status.previous_cursor)
    THEN [previous_cursor |-> Some(new_cursor),
          last_transition |-> t,
          state |-> IF new_cursor.blinkwait \in { None, Some(0) }
                    THEN "On" ELSE "Waiting"]
    ELSE status

\* update_status, lines 49-56: a first or a different cursor resets the
\* phase and the transition time.
reset_on_change(status, new_cursor, t) ==
    IF ~IsSome(status.previous_cursor) \/ new_cursor # Unwrap(status.previous_cursor)
    THEN [previous_cursor |-> Some(new_cursor),
          last_transition |-> t,
          state |-> IF new_cursor.blinkwait \in { None, Some(0) }
                    THEN "On" ELSE "Waiting"]
    ELSE status

forced_visible_wait_only(new_cursor) == new_cursor.blinkwait = Some(0)

\* update_status, lines 58-62: a delay of exactly zero turns blinking off.
forced_visible(new_cursor) ==
    \/ new_cursor.blinkwait = Some(0)
    \/ new_cursor.blinkoff = Some(0)
    \/ new_cursor.blinkon = Some(0)

\* update_status, lines 64-68: the delay of a phase.
blink_delay(blink_state, new_cursor) ==
    CASE blink_state = "Waiting" -> new_cursor.blinkwait
      [] blink_state = "Off" -> new_cursor.blinkoff
      [] blink_state = "On" -> new_cursor.blinkon

delay_elapsed_strictly(delay, since, t) == delay > 0 /\ t - since > delay

\* update_status, line 72: the delay has elapsed since the last transition.
delay_elapsed(delay, since, t) == delay > 0 /\ t - since >= delay

\* An update_status that asks for a wake-up only when the phase changed.
update_status_schedules_transitions_only(status, new_cursor, t) ==
    LET reset == reset_on_change(status, new_cursor, t) IN
    IF forced_visible(new_cursor)
    THEN [status |-> reset, ret |-> TRUE, scheduled |-> None]
    ELSE LET delay == blink_delay(reset.state, new_cursor) IN
         IF IsSome(delay) /\ delay_elapsed(Unwrap(delay), reset.last_transition, t)
         THEN [status |-> [reset EXCEPT !.state = next_state(reset.state),
                                        !.last_transition = t],
               ret |-> next_state(reset.state) = "On",
               scheduled |-> Some(t + Unwrap(delay))]
         ELSE [status |-> reset, ret |-> reset.state = "On", scheduled |-> None]

\* BlinkStatus::update_status called at time t: the new BlinkStatus, the
\* value returned and the instant passed to REDRAW_SCHEDULER.schedule, if it
\* is called.  The call reads the clock once: it takes no time.
update_status(status, new_cursor, t) ==
    LET reset == reset_on_change(status, new_cursor, t) IN
    IF forced_visible(new_cursor)
    THEN [status |-> reset, ret |-> TRUE, scheduled |-> None]
    ELSE LET delay == blink_delay(reset.state, new_cursor) IN
         IF IsSome(delay)
         THEN LET after ==
                      IF delay_elapsed(Unwrap(delay), reset.last_transition, t)
                      THEN [reset EXCEPT !.state = next_state(reset.state),
                                         !.last_transition = t]
                      ELSE reset
              IN  [status |-> after, ret |-> after.state = "On",
                   scheduled |-> Some(after.last_transition + Unwrap(delay))]
         ELSE [status |-> reset, ret |-> reset.state = "On", scheduled |-> None]

\* ------------------------------------------------------------------------
\* Cursor geometry (src/renderer/cursor_renderer.rs), as functions
\*
\* An f32 is a whole number of thousandths (Scale), a Point a pair of them.
\* A product is divided back by Scale; the one rounding that is not floor is
\* the step of a corner, which is rounded away from zero so that a corner
\* reaches its destination as it does in floating point.
\* ------------------------------------------------------------------------

Scale == 1000

AVERAGE_MOTION_PERCENTAGE == 700

MOTION_PERCENTAGE_SPREAD == 500

COMMAND_LINE_DELAY_FRAMES == 5

\* 1.0 / 8.0
DEFAULT_CELL_PERCENTAGE == 125

\* 0.001, the length under which a corner is at rest.
Epsilon == 1

\* The font's cell, in pixels.
FontWidth == 3

FontHeight == 4

STANDARD_CORNERS ==
    << << -500, -500 >>, << 500, -500 >>, << 500, 500 >>, << -500, 500 >> >>

Plus(a, b) == << a[1] + b[1], a[2] + b[2] >>

Minus(a, b) == << a[1] - b[1], a[2] - b[2] >>

Dot(a, b) == a[1] * b[1] + a[2] * b[2]

Abs(x) == IF x < 0 THEN -x ELSE x

\* One step of Newton's iteration for the square root of n.
Newton(n, x) == (x + n \div x) \div 2

\* Point::length, rounded down: Newton's iteration from |x| + |y|, which is
\* at least the length and less than half as much again.
Length(a) ==
    LET n == Dot(a, a)
        r == Newton(n, Newton(n, Newton(n, Newton(n, Newton(n, Abs(a[1]) + Abs(a[2]))))))
    IN  IF n = 0 THEN 0 ELSE IF r * r > n THEN r - 1 ELSE r

\* a * percentage, rounded away from zero.
Step(a, percentage) ==
    IF a >= 0
    THEN (a * percentage + Scale - 1) \div Scale
    ELSE -((-a * percentage + Scale - 1) \div Scale)

\* Corner::new
NewCorner(relative_position) ==
    [current_position |-> << 0, 0 >>, relative_position |-> relative_position]

\* Corner::update: the corner after the call and the value returned.
corner_update(corner, font_dimensions, destination) ==
    LET relative_scaled_position ==
            << (corner.relative_position[1] * font_dimensions[1]) \div Scale,
               (corner.relative_position[2] * font_dimensions[2]) \div Scale >>
        corner_destination == Plus(destination, relative_scaled_position)
        delta == Minus(corner_destination, corner.current_position)
        motion_scale ==
            ((Dot(delta, relative_scaled_position) \div Length(delta)) * Scale)
                \div Length(font_dimensions)
        motion_percentage ==
            (motion_scale * MOTION_PERCENTAGE_SPREAD) \div Scale
                + AVERAGE_MOTION_PERCENTAGE
    IN  [corner |->
             IF delta # << 0, 0 >>
             THEN [corner EXCEPT !.current_position =
                       Plus(@, << Step(delta[1], motion_percentage),
                                  Step(delta[2], motion_percentage) >>)]
             ELSE corner,
         animating |-> Dot(delta, delta) > Epsilon * Epsilon]

\* The relative position set_cursor_shape gives the corner of a standard
\* corner (x, y).
shape_corner(cursor_shape, cell_percentage, standard_corner) ==
    LET x == standard_corner[1]
        y == standard_corner[2]
    IN  CASE cursor_shape = "Block" -> << x, y >>
          [] cursor_shape = "Vertical" ->
                 << ((x + 500) * cell_percentage) \div Scale - 500, y >>
          [] cursor_shape = "Horizontal" ->
                 << x, -(((-y + 500) * cell_percentage) \div Scale - 500) >>

\* CursorRenderer::set_cursor_shape
set_cursor_shape(corner_list, cursor_shape, cell_percentage) ==
    [i \in 1 .. 4 |->
        [corner_list[i] EXCEPT !.relative_position =
            shape_corner(cursor_shape, cell_percentage, STANDARD_CORNERS[i])]]

hold_position_inclusive(delay) == delay <= COMMAND_LINE_DELAY_FRAMES

\* draw, line 184: the drawn position is withheld.
hold_position(delay) == delay < COMMAND_LINE_DELAY_FRAMES

\* A draw that resets the counter only when the delay has run out.
draw_position_keeps_counter(previous, delay, cursor_position, grid_height) ==
    IF cursor_position[2] = grid_height - 1 /\ previous[2] # cursor_position[2]
    THEN IF hold_position(delay + 1)
         THEN [previous_position |-> previous, command_line_delay |-> delay + 1]
         ELSE [previous_position |-> cursor_position, command_line_delay |-> 0]
    ELSE [previous_position |-> cursor_position, command_line_delay |-> delay]

\* draw, lines 178-194: the new previous_position and command_line_delay.
draw_position(previous, delay, cursor_position, grid_height) ==
    IF cursor_position[2] = grid_height - 1 /\ previous[2] # cursor_position[2]
    THEN IF hold_position(delay + 1)
         THEN [previous_position |-> previous, command_line_delay |-> delay + 1]
         ELSE [previous_position |-> cursor_position, command_line_delay |-> 0]
    ELSE [previous_position |-> cursor_position, command_line_delay |-> 0]

needs_next_frame_delay_only(animating, delay) == delay # 0

\* draw, line 229: another frame is needed.
needs_next_frame(animating, delay) == animating \/ delay # 0

\* draw, lines 196-227: the corners after the frame and what each corner's
\* update returned (nothing when the corners were not updated).
draw_corners(corner_list, cursor, position, is_double) ==
    LET width == FontWidth * Scale
        height == FontHeight * Scale
        font_dimensions ==
            << IF is_double /\ cursor.shape = "Block" THEN width * 2 ELSE width, height >>
        destination == << position[1] * width, position[2] * height >>
        center_destination ==
            Plus(destination, << font_dimensions[1] \div 2, font_dimensions[2] \div 2 >>)
        shaped ==
            set_cursor_shape(corner_list, cursor.shape,
                IF IsSome(cursor.cell_percentage)
                THEN Unwrap(cursor.cell_percentage) ELSE DEFAULT_CELL_PERCENTAGE)
        updated == [i \in 1 .. 4 |-> corner_update(shaped[i], font_dimensions, center_destination)]
    IN  IF center_destination # << 0, 0 >>
        THEN [corners |-> [i \in 1 .. 4 |-> updated[i].corner],
              reported |-> [i \in 1 .. 4 |-> updated[i].animating]]
        ELSE [corners |-> shaped, reported |-> << >>]

\* ------------------------------------------------------------------------
\* State
\* ------------------------------------------------------------------------

VARIABLES
    now,              \* the clock (Instant::now()), in milliseconds
    settings,         \* SETTINGS: name -> Setting
    settingsCall,     \* the last call of the settings: the operation, what it
                      \* was given and what it returned
    frames_queued,    \* RedrawScheduler.frames_queued
    scheduled_frame,  \* RedrawScheduler.scheduled_frame
    \* history of the scheduler's calls
    call,             \* the last call a user of the scheduler made: its name,
                      \* what it returned and the fields and the time it found
    requested,        \* the deadlines users of the scheduler passed to
                      \* schedule() since the stored deadline was last consumed
    grant,            \* the credit granted by the last queue_next_frame() and the
                      \* should_draw() calls made since
    \* calls of the scheduler under way on two threads
    drawing,          \* the render thread in should_draw(): the frame credit
                      \* it has loaded, if it is past the load
    queueing,         \* another thread in queue_next_frame(): the setting it
                      \* has read, if it is past the read
    overlap,          \* of the last should_draw() and queue_next_frame()
                      \* that were under way at the same time: how many of
                      \* the two have returned, and the credit n granted
    \* the process bridge
    startPc,          \* where start_process is
    requests,         \* the requests start_process has made of the editor
    answered,         \* the answer to the version query, once given
    watcher,          \* the close watcher: "not_spawned", "awaiting", "exited"
    io_handler,       \* the outcome of the editor's I/O loop, once it ended
    errors,           \* the errors reported so far (error!, eprintln!)
    exit_code,        \* the code std::process::exit was called with
    loopPc,           \* where the dispatch loop is
    exited,           \* std::process::exit was called
    receiver,         \* the queue's receiving end: "alive" or "dropped"
    queue,            \* the commands in the unbounded channel
    results,          \* drain's results vector
    todo,             \* what is left of the for loop's iterator
    tasks,            \* spawned command tasks that have not run yet
    \* history of the bridge
    sent,             \* the number of commands queued so far
    sendCall,         \* how the last queue_command call ended: "returned"
                      \* or "panicked" ("none" before the first call)
    atRecv,           \* the commands in the queue when recv() returned
    batches,          \* the batches drained so far
    spawned,          \* the commands a task was spawned for, in spawn order
    executed,         \* the commands whose task has run
    \* the cursor renderer
    blink_status,     \* CursorRenderer.blink_status
    \* history of the blink state machine
    blinkCall,        \* the last update_status call: its cursor, what it
                      \* returned, what it passed to schedule(), when it was
                      \* made and the phase it found
    first,            \* the first update_status call: when it was made, the
                      \* calls made since, and whether the cursor is still
                      \* the one it was made with
    corners,          \* CursorRenderer.corners
    previous_position,   \* CursorRenderer.previous_position
    command_line_delay,  \* CursorRenderer.command_line_delay
    \* history of draw
    draws,            \* the number of draw calls so far
    drawCall,         \* the last draw call: its cursor, what the corners'
                      \* updates returned, whether queue_next_frame was
                      \* called, and the command-line delay it found
    run               \* the draw calls in a row, up to the last one, whose
                      \* cursor was on the last grid row, and the drawn
                      \* position before the first of them

\* The calls of the scheduler that are under way, step by step.
stepVars == << drawing, queueing, overlap >>

schedVars == << frames_queued, scheduled_frame, call, requested, grant, stepVars >>

bridgeVars ==
    << startPc, requests, answered, watcher, io_handler, errors, exit_code,
       loopPc, exited, receiver, queue, results, todo, tasks,
       sent, sendCall, atRecv, batches, spawned, executed >>

blinkVars == << blink_status, blinkCall, first >>

drawVars == << corners, previous_position, command_line_delay, draws, drawCall, run >>

settingsVars == << settings, settingsCall >>

vars == << now, settingsVars, schedVars, bridgeVars, blinkVars, drawVars >>

\* A record of one call of the scheduler: the operation, its argument, what it
\* returned, and the fields, the requested deadlines and the time it found.
Called(op, arg, ret) ==
    [op |-> op, arg |-> arg, ret |-> ret, queued |-> frames_queued,
     scheduled |-> scheduled_frame, requested |-> requested, at |-> now]

NoCall ==
    [op |-> "new", arg |-> 0, ret |-> FALSE, queued |-> 0,
     scheduled |-> None, requested |-> {}, at |-> 0]

NoGrant == [n |-> -1, k |-> 0]

\* No should_draw() has been under way together with a queue_next_frame().
NoOverlap == [returned |-> -1, n |-> 0]

\* No call of the settings yet.
NoSettingsCall ==
    [op |-> "new", answers |-> << >>, name |-> StringValue("none"), value |-> None,
     ret |-> None]

\* Settings::new, from the command-line arguments.
SettingsInit(args) ==
    /\ settings = SettingsNew(args)
    /\ settingsCall = NoSettingsCall

SchedInit ==
    /\ frames_queued = NewFramesQueued
    /\ scheduled_frame = None
    /\ call = NoCall
    /\ requested = {}
    /\ grant = NoGrant
    /\ drawing = None
    /\ queueing = None
    /\ overlap = NoOverlap

\* Bridge::new: the channel is created and start_process is spawned.
BridgeInit ==
    /\ startPc = "new_child_cmd"
    /\ requests = << >>
    /\ answered = None
    /\ watcher = "not_spawned"
    /\ io_handler = None
    /\ errors = << >>
    /\ exit_code = None
    /\ sendCall = "none"
    /\ loopPc = "not_started"
    /\ exited = FALSE
    /\ receiver = "alive"
    /\ queue = << >>
    /\ results = << >>
    /\ todo = << >>
    /\ tasks = {}
    /\ sent = 0
    /\ atRecv = {}
    /\ batches = << >>
    /\ spawned = << >>
    /\ executed = {}

NoBlinkCall ==
    [op |-> "new", cursor |-> None, ret |-> FALSE, scheduled |-> None,
     at |-> 0, found |-> "Waiting"]

\* CursorRenderer::new at time 0.
BlinkInit ==
    /\ blink_status = NewBlinkStatus(0)
    /\ blinkCall = NoBlinkCall
    /\ first = [calls |-> 0, at |-> 0, unchanged |-> TRUE]

NoDrawCall ==
    [op |-> "new", cursor |-> None, reported |-> << >>, queued |-> FALSE, delay |-> 0]

\* CursorRenderer::new
DrawInit ==
    /\ corners = set_cursor_shape([i \in 1 .. 4 |-> NewCorner(<< 0, 0 >>)],
                                  "Block", DEFAULT_CELL_PERCENTAGE)
    /\ previous_position = << 0, 0 >>
    /\ command_line_delay = 0
    /\ draws = 0
    /\ drawCall = NoDrawCall
    /\ run = [n |-> 0, from |-> << 0, 0 >>]

\* ------------------------------------------------------------------------
\* The clock and the settings
\* ------------------------------------------------------------------------

Tick ==
    /\ now < MaxTime
    /\ now' = now + 1
    /\ UNCHANGED << settingsVars, schedVars, bridgeVars, blinkVars, drawVars >>

\* Settings::handle_changed_notification for a known setting name.
SettingChanged(name, value) ==
    /\ settings' = [settings EXCEPT ![name] = parse(@, value)]
    /\ UNCHANGED settingsCall
    /\ UNCHANGED << now, schedVars, bridgeVars, blinkVars, drawVars >>

\* The command-line arguments Settings::new looks for.
Args == { "--log", "--noIdle", "--extraBufferFrames" }

\* The first argument of a "setting_changed" notification: the name of a
\* setting, a name that is no setting's, a value that is no string.
NotifiedNames ==
    { StringValue(name) : name \in SettingNames } \cup { StringValue("unknown"), Integer(1) }

\* The answers of nvim.get_var: Ok(value) or Err.
GetVarAnswers == { Some(value) : value \in NotifiedValues } \cup { None }

\* Settings::read_initial_values: every setting whose variable the editor
\* has is parsed from it; the others are written to the editor as they are.
ReadInitialValues(answers) ==
    /\ settings' = [name \in SettingNames |->
                        IF IsSome(answers[name])
                        THEN parse(settings[name], Unwrap(answers[name]))
                        ELSE settings[name]]
    /\ settingsCall' = [NoSettingsCall EXCEPT !.op = "read_initial_values",
                                              !.answers = answers]
    /\ UNCHANGED << now, schedVars, bridgeVars, blinkVars, drawVars >>

\* Settings::handle_changed_notification(arguments)
HandleChangedNotification(arguments) ==
    LET name == try_into_string(arguments[1])
        value == arguments[2]
    IN  /\ settings' = IF IsSome(name) /\ Unwrap(name) \in SettingNames
                       THEN [settings EXCEPT ![Unwrap(name)] = parse(@, value)]
                       ELSE settings
        /\ settingsCall' = [NoSettingsCall EXCEPT !.op = "handle_changed_notification",
                                                  !.name = arguments[1],
                                                  !.value = Some(value)]
        /\ UNCHANGED << now, schedVars, bridgeVars, blinkVars, drawVars >>

\* Settings::get(name).read_bool(); None is the panic.
ReadBool(name) ==
    /\ settingsCall' = [NoSettingsCall EXCEPT !.op = "read_bool",
                                              !.name = StringValue(name),
                                              !.ret = read_bool(settings[name])]
    /\ UNCHANGED << now, settings, schedVars, bridgeVars, blinkVars, drawVars >>

\* Settings::get(name).read_u16(); None is the panic.
ReadU16(name) ==
    /\ settingsCall' = [NoSettingsCall EXCEPT !.op = "read_u16",
                                              !.name = StringValue(name),
                                              !.ret = read_u16(settings[name])]
    /\ UNCHANGED << now, settings, schedVars, bridgeVars, blinkVars, drawVars >>

\* ------------------------------------------------------------------------
\* The settings driven by the editor and read by the application
\* ------------------------------------------------------------------------

SettingsSpecInit ==
    /\ now = 0
    /\ \E args \in SUBSET Args : SettingsInit(args)
    /\ SchedInit
    /\ BridgeInit
    /\ BlinkInit
    /\ DrawInit

SettingsNext ==
    \/ \E answers \in [SettingNames -> GetVarAnswers] : ReadInitialValues(answers)
    \/ \E name \in NotifiedNames, value \in NotifiedValues :
           HandleChangedNotification(<< name, value >>)
    \/ \E name \in SettingNames : ReadBool(name)
    \/ \E name \in SettingNames : ReadU16(name)

SettingsSpec == SettingsSpecInit /\ [][SettingsNext]_vars

\* A step in which the settings were called.
SettingsCalled == settingsCall' # settingsCall

\* The value converts to u64: it is a non-negative integer.
Converts(value) == value.tag = "Integer" /\ value.v >= 0

\* C19: no_idle is always a Bool and extra_buffer_frames always a U16,
\* whatever read_initial_values and the change notifications carry; a value
\* that does not convert leaves the setting as it was, and one that converts
\* is stored as value # 0 in a Bool and as its low 16 bits in a U16;
\* read_bool panics exactly on the U16 setting and read_u16 exactly on the
\* Bool setting.
C19_SettingTypeNeverChanges ==
    /\ [](/\ settings.no_idle.type = "Bool"
          /\ settings.no_idle.value \in { 0, 1 }
          /\ settings.extra_buffer_frames.type = "U16"
          /\ settings.extra_buffer_frames.value \in 0 .. U16Modulus - 1)
    /\ [][SettingsCalled =>
              \A name \in SettingNames :
                  LET carried ==
                          IF settingsCall'.op = "read_initial_values"
                          THEN settingsCall'.answers[name]
                          ELSE IF /\ settingsCall'.op = "handle_changed_notification"
                                  /\ settingsCall'.name = StringValue(name)
                               THEN settingsCall'.value
                               ELSE None
                  IN  /\ settings'[name].type = settings[name].type
                      /\ carried = None \/ ~Converts(carried[1]) =>
                             settings'[name] = settings[name]
                      /\ carried # None /\ Converts(carried[1]) =>
                             settings'[name].value =
                                 IF settings[name].type = "Bool"
                                 THEN (IF carried[1].v = 0 THEN 0 ELSE 1)
                                 ELSE carried[1].v % 65536]_vars
    /\ [](settingsCall.op = "read_bool" =>
              (settingsCall.ret = None <=> settingsCall.name = StringValue("extra_buffer_frames")))
    /\ [](settingsCall.op = "read_u16" =>
              (settingsCall.ret = None <=> settingsCall.name = StringValue("no_idle")))

\* extra_buffer_frames was 60 (--extraBufferFrames) when a notification
\* carrying the boolean true arrived for it: it is still the U16 60.
C19_Witness ==
    /\ settingsCall.op = "handle_changed_notification"
    /\ settingsCall.name = StringValue("extra_buffer_frames")
    /\ settingsCall.value = Some(Boolean(TRUE))
    /\ settings.extra_buffer_frames = U16(ExtraBufferFramesArg)

\* ------------------------------------------------------------------------
\* The scheduler's operations, each called on its own
\* ------------------------------------------------------------------------

\* The effect of schedule(new_scheduled) on the scheduler's fields.
DoSchedule(new_scheduled) ==
    scheduled_frame' = schedule(scheduled_frame, new_scheduled)

\* The effect of queue_next_frame() on the scheduler's fields.
DoQueueNextFrame ==
    /\ IsSome(read_u16(settings.extra_buffer_frames))
    /\ frames_queued' =
           queue_next_frame(frames_queued, Unwrap(read_u16(settings.extra_buffer_frames)))
    /\ grant' = [n |-> Unwrap(read_u16(settings.extra_buffer_frames)), k |-> 0]

Schedule(new_scheduled) ==
    /\ DoSchedule(new_scheduled)
    /\ requested' = requested \cup { new_scheduled }
    /\ call' = Called("schedule", new_scheduled, FALSE)
    /\ UNCHANGED << frames_queued, grant, stepVars >>
    /\ UNCHANGED << now, settingsVars, bridgeVars, blinkVars, drawVars >>

QueueNextFrame ==
    /\ DoQueueNextFrame
    /\ call' = Called("queue_next_frame", 0, FALSE)
    /\ UNCHANGED << scheduled_frame, requested, stepVars >>
    /\ UNCHANGED << now, settingsVars, bridgeVars, blinkVars, drawVars >>

ShouldDraw ==
    LET r == should_draw(frames_queued, scheduled_frame, now) IN
    /\ frames_queued' = r.frames_queued
    /\ scheduled_frame' = r.scheduled_frame
    /\ requested' = IF IsSome(r.scheduled_frame) THEN requested ELSE {}
    /\ grant' = IF grant.n >= 0 /\ grant.k <= grant.n
                THEN [grant EXCEPT !.k = @ + 1] ELSE NoGrant
    /\ call' = Called("should_draw", 0, r.ret)
    /\ UNCHANGED stepVars
    /\ UNCHANGED << now, settingsVars, bridgeVars, blinkVars, drawVars >>

\* ------------------------------------------------------------------------
\* The scheduler driven by arbitrary callers
\* ------------------------------------------------------------------------

SchedulerInit ==
    /\ now = 0
    /\ SettingsInit({})
    /\ SchedInit
    /\ BridgeInit
    /\ BlinkInit
    /\ DrawInit

SchedulerNext ==
    \/ Tick
    \/ \E value \in NotifiedValues : SettingChanged("extra_buffer_frames", value)
    \/ \E d \in 0 .. MaxTime : Schedule(d)
    \/ QueueNextFrame
    \/ ShouldDraw

SchedulerSpec == SchedulerInit /\ [][SchedulerNext]_vars

\* A deadline that is pending and has elapsed at time t.
Elapsed(scheduled, t) == IsSome(scheduled) /\ Unwrap(scheduled) < t

\* C3: with the extra buffer frames setting equal to n when queue_next_frame()
\* is called, queue_next_frame() leaves the credit at exactly n (it sets, it
\* does not add), each of the next n should_draw() calls returns true whether
\* or not a deadline is pending, and call n+1 returns false unless a pending
\* deadline has elapsed.
C3_QueueNextFrameGrantsNFrames ==
    /\ call.op = "queue_next_frame" => frames_queued = grant.n
    /\ call.op = "should_draw" /\ grant.n >= 0 =>
           /\ grant.k <= grant.n => call.ret
           /\ grant.k = grant.n + 1 /\ ~Elapsed(call.scheduled, call.at) => ~call.ret

\* queue_next_frame() with n = 2, two should_draw() calls that returned true,
\* then a third that returned false although a deadline was pending.
C3_Witness ==
    /\ call.op = "should_draw"
    /\ grant.n = 2
    /\ grant.k = 3
    /\ ~call.ret
    /\ IsSome(call.scheduled)

\* C4: the stored deadline, if present, is the minimum of the deadlines passed
\* to schedule() since the deadline was last consumed, and none is stored when
\* none was requested; schedule(d) replaces the stored deadline only when none
\* is pending or d is strictly earlier than the pending one.
C4_DeadlineIsMinimumRequested ==
    /\ IsSome(scheduled_frame) <=> requested # {}
    /\ IsSome(scheduled_frame) => Unwrap(scheduled_frame) = SetMin(requested)
    /\ call.op = "schedule" /\ scheduled_frame # call.scheduled =>
           /\ scheduled_frame = Some(call.arg)
           /\ ~IsSome(call.scheduled) \/ call.arg < Unwrap(call.scheduled)

\* Three deadlines were requested, the last one neither the earliest nor the
\* latest, and the earliest is the one stored.
C4_Witness ==
    /\ call.op = "schedule"
    /\ Cardinality(requested) = 3
    /\ call.arg > SetMin(requested)
    /\ call.arg > Unwrap(call.scheduled)
    /\ scheduled_frame = call.scheduled

\* C5: with frame credit 0 and deadlines requested by schedule(), a
\* should_draw() called before the earliest requested time returns false and
\* leaves that deadline pending, one called after it returns true and clears
\* the deadline, and with no deadline requested since the last one was
\* consumed should_draw() returns false.
C5_MergedDeadlineFiresOnce ==
    call.op = "should_draw" /\ call.queued = 0 =>
        IF call.requested # {}
        THEN /\ call.at < SetMin(call.requested) =>
                    ~call.ret /\ scheduled_frame = Some(SetMin(call.requested))
             /\ call.at > SetMin(call.requested) =>
                    call.ret /\ scheduled_frame = None
        ELSE ~call.ret /\ scheduled_frame = None

\* schedule(t1), schedule(t2) with t1 # t2, and a should_draw() after
\* min(t1, t2) that returned true and cleared the deadline.
C5_Witness ==
    /\ call.op = "should_draw"
    /\ call.queued = 0
    /\ Cardinality(call.requested) = 2
    /\ call.at > SetMin(call.requested)
    /\ call.ret
    /\ scheduled_frame = None

\* C15: a should_draw() that found a frame credit c > 0 returned true, left
\* the credit at c - 1 and left the pending deadline as it was, elapsed or
\* not; a schedule() left the credit as it was, and a queue_next_frame() left
\* the pending deadline as it was.
C15_CreditDrawKeepsDeadline ==
    /\ call.op = "should_draw" /\ call.queued > 0 =>
           /\ call.ret
           /\ frames_queued = call.queued - 1
           /\ scheduled_frame = call.scheduled
    /\ call.op = "schedule" => frames_queued = call.queued
    /\ call.op = "queue_next_frame" => scheduled_frame = call.scheduled

\* A should_draw() that found a credit of 2 and a deadline that had elapsed:
\* it returned true, the credit is 1 and the deadline is still pending.
C15_Witness ==
    /\ call.op = "should_draw"
    /\ call.queued = 2
    /\ Elapsed(call.scheduled, call.at)
    /\ call.ret
    /\ frames_queued = 1
    /\ scheduled_frame = call.scheduled

\* ------------------------------------------------------------------------
\* should_draw() on the render thread and queue_next_frame() on another
\* thread, one atomic load or store at a time
\* ------------------------------------------------------------------------

\* A call that starts while the other thread's call is under way makes the
\* two the pair that is followed.
Started(other) == IF IsSome(other) THEN [returned |-> 0, n |-> 0] ELSE NoOverlap

\* A call of the pair that is followed returns.
Returned == IF overlap.returned \in { 0, 1 }
            THEN [overlap EXCEPT !.returned = @ + 1] ELSE overlap

\* should_draw, line 45: frames_queued.load(Relaxed)
ShouldDrawLoad ==
    /\ drawing = None
    /\ drawing' = Some(frames_queued)
    /\ overlap' = Started(queueing)
    /\ UNCHANGED << frames_queued, scheduled_frame, call, requested, grant, queueing >>
    /\ UNCHANGED << now, settingsVars, bridgeVars, blinkVars, drawVars >>

\* should_draw, lines 46-61, with the credit it loaded: the store of the
\* credit less one, or the test of the deadline under the mutex.
ShouldDrawFinish ==
    LET r == should_draw(Unwrap(drawing), scheduled_frame, now) IN
    /\ IsSome(drawing)
    /\ frames_queued' = IF Unwrap(drawing) > 0 THEN r.frames_queued ELSE frames_queued
    /\ scheduled_frame' = r.scheduled_frame
    /\ requested' = IF IsSome(r.scheduled_frame) THEN requested ELSE {}
    /\ drawing' = None
    /\ overlap' = Returned
    /\ UNCHANGED << call, grant, queueing >>
    /\ UNCHANGED << now, settingsVars, bridgeVars, blinkVars, drawVars >>

\* queue_next_frame, line 40: the setting is read.
QueueNextFrameRead ==
    /\ queueing = None
    /\ IsSome(read_u16(settings.extra_buffer_frames))
    /\ queueing' = read_u16(settings.extra_buffer_frames)
    /\ overlap' = Started(drawing)
    /\ UNCHANGED << frames_queued, scheduled_frame, call, requested, grant, drawing >>
    /\ UNCHANGED << now, settingsVars, bridgeVars, blinkVars, drawVars >>

\* queue_next_frame, line 41: frames_queued.store(buffer_frames, Relaxed)
QueueNextFrameStore ==
    /\ IsSome(queueing)
    /\ frames_queued' = queue_next_frame(frames_queued, Unwrap(queueing))
    /\ queueing' = None
    /\ overlap' = [Returned EXCEPT !.n = Unwrap(queueing)]
    /\ UNCHANGED << scheduled_frame, call, requested, grant, drawing >>
    /\ UNCHANGED << now, settingsVars, bridgeVars, blinkVars, drawVars >>

ThreadsInit ==
    /\ now = 0
    /\ SettingsInit({})
    /\ SchedInit
    /\ BridgeInit
    /\ BlinkInit
    /\ DrawInit

ThreadsNext ==
    \/ \E value \in NotifiedValues : SettingChanged("extra_buffer_frames", value)
    \/ ShouldDrawLoad
    \/ ShouldDrawFinish
    \/ QueueNextFrameRead
    \/ QueueNextFrameStore

ThreadsSpec == ThreadsInit /\ [][ThreadsNext]_vars

\* C20, as claimed: when a should_draw() and a queue_next_frame() granting
\* n >= 1 frames were under way at the same time and both have returned, the
\* frame credit is n or n - 1.  The code loads the credit and stores the
\* credit less one in two steps, so that a grant stored between the two is
\* overwritten.
C20_GrantSurvivesConcurrentDraw ==
    /\ overlap.returned = 2
    /\ overlap.n >= 1
    => frames_queued \in { overlap.n, overlap.n - 1 }

\* ------------------------------------------------------------------------
\* The process bridge (src/bridge/mod.rs)
\* ------------------------------------------------------------------------

loopVars == << loopPc, results, todo, tasks, atRecv, batches, spawned, executed >>

producerVars == << queue, sent, sendCall >>

exitVars == << exited, exit_code >>

watchVars == << watcher, io_handler >>

startVars == << startPc, requests, answered >>

\* The answers of nvim.eval("has(\"nvim-0.4\")"): Ok(value) or Err.
EvalAnswers ==
    { Some(Integer(1)), Some(Integer(0)), Some(Integer(2)), Some(Boolean(TRUE)), None }

\* The outcomes of awaiting the join handle of the editor process's I/O
\* loop: Ok(Ok(())), Ok(Err(e)) with e.is_channel_closed(), Ok(Err(e))
\* otherwise, Err(join_error).
IoOutcomes == { "Ok", "ChannelClosed", "IoError", "JoinError" }

CompatibilityError == "Neovide requires version 0.4 or higher"

JoinErrorReport == "Error joining IO loop"

IoErrorReport == "Error"

\* A close watcher that reports every I/O error, the closed channel included.
watcher_report_every_error(outcome) ==
    IF outcome = "JoinError" THEN << JoinErrorReport >>
    ELSE IF outcome = "Ok" THEN << >>
    ELSE << IoErrorReport >>

\* The match of the close watcher: what it reports (eprintln!, error!) for
\* an outcome of the I/O loop.
watcher_report(outcome) ==
    IF outcome = "JoinError" THEN << JoinErrorReport >>
    ELSE IF outcome = "IoError" THEN << IoErrorReport >>
    ELSE << >>

\* A version check that looks at the number and not at the kind of value.
correct_version_any_kind(answer) == IsSome(answer) /\ Unwrap(answer).v = 1

\* The version check: Ok(Value::Integer(v)) with v.as_i64() == Some(1).
correct_version(answer) ==
    /\ IsSome(answer)
    /\ Unwrap(answer).tag = "Integer"
    /\ Unwrap(answer).v = 1

\* A channel whose send fails until the receiving task polls it.
send_needs_running_loop(chan, rx, loop, command) ==
    IF rx = "alive" /\ loop # "not_started"
    THEN [queue |-> Append(chan, command), result |-> "Ok"]
    ELSE [queue |-> chan, result |-> "Err"]

\* UnboundedSender::send: the command is appended whatever the length of the
\* queue, and the send fails only when the receiver is gone.
send(chan, rx, loop, command) ==
    IF rx = "alive"
    THEN [queue |-> Append(chan, command), result |-> "Ok"]
    ELSE [queue |-> chan, result |-> "Err"]

\* std::process::exit(code)
ProcessExit(code) ==
    /\ exited' = TRUE
    /\ exit_code' = Some(code)

\* create::new_child_cmd succeeds, and the close watcher is spawned.
NewChildCmdOk ==
    /\ ~exited
    /\ startPc = "new_child_cmd"
    /\ startPc' = "eval"
    /\ watcher' = "awaiting"
    /\ UNCHANGED << requests, answered, io_handler, errors, exitVars, receiver,
                    producerVars, loopVars >>
    /\ UNCHANGED << now, settingsVars, schedVars, blinkVars, drawVars >>

\* create::new_child_cmd fails: unwrap_or_explained_panic unwinds
\* start_process, which owns the receiver.
NewChildCmdFails ==
    /\ ~exited
    /\ startPc = "new_child_cmd"
    /\ startPc' = "panicked"
    /\ receiver' = "dropped"
    /\ UNCHANGED << requests, answered, watchVars, errors, exitVars, producerVars, loopVars >>
    /\ UNCHANGED << now, settingsVars, schedVars, blinkVars, drawVars >>

\* The I/O loop of the editor process ends: its join handle completes.
IoLoopEnds(outcome) ==
    /\ ~exited
    /\ watcher = "awaiting"
    /\ io_handler = None
    /\ io_handler' = Some(outcome)
    /\ UNCHANGED << startVars, watcher, errors, exitVars, receiver, producerVars, loopVars >>
    /\ UNCHANGED << now, settingsVars, schedVars, blinkVars, drawVars >>

\* The close watcher wakes up with the outcome of the I/O loop, reports it
\* and ends the application.
CloseWatcher ==
    /\ ~exited
    /\ watcher = "awaiting"
    /\ IsSome(io_handler)
    /\ errors' = errors \o watcher_report(Unwrap(io_handler))
    /\ watcher' = "exited"
    /\ ProcessExit(0)
    /\ UNCHANGED << startVars, io_handler, receiver, producerVars, loopVars >>
    /\ UNCHANGED << now, settingsVars, schedVars, blinkVars, drawVars >>

\* The version check.
Eval(answer) ==
    /\ ~exited
    /\ startPc = "eval"
    /\ requests' = Append(requests, "eval")
    /\ answered' = Some(answer)
    /\ IF correct_version(answer)
       THEN startPc' = "set_var" /\ UNCHANGED << errors, exitVars >>
       ELSE /\ errors' = Append(errors, CompatibilityError)
            /\ ProcessExit(0)
            /\ UNCHANGED startPc
    /\ UNCHANGED << watchVars, receiver, producerVars, loopVars >>
    /\ UNCHANGED << now, settingsVars, schedVars, blinkVars, drawVars >>

\* nvim.set_var("neovide", true)
SetVar(ok) ==
    /\ ~exited
    /\ startPc = "set_var"
    /\ requests' = Append(requests, "set_var")
    /\ startPc' = IF ok THEN "ui_attach" ELSE "panicked"
    /\ receiver' = IF ok THEN receiver ELSE "dropped"
    /\ UNCHANGED << answered, watchVars, errors, exitVars, producerVars, loopVars >>
    /\ UNCHANGED << now, settingsVars, schedVars, blinkVars, drawVars >>

\* A start_process that spawns the dispatch loop whatever ui_attach answers.
UiAttachThenLoopRegardless(ok) ==
    /\ ~exited
    /\ startPc = "ui_attach"
    /\ requests' = Append(requests, "ui_attach")
    /\ startPc' = IF ok THEN "attached" ELSE "panicked"
    /\ loopPc' = "recv"
    /\ UNCHANGED << answered, watchVars, errors, exitVars, receiver, producerVars >>
    /\ UNCHANGED << results, todo, tasks, atRecv, batches, spawned, executed >>
    /\ UNCHANGED << now, settingsVars, schedVars, blinkVars, drawVars >>

\* nvim.ui_attach; on success the dispatch loop is spawned with the receiver.
UiAttach(ok) ==
    /\ ~exited
    /\ startPc = "ui_attach"
    /\ requests' = Append(requests, "ui_attach")
    /\ startPc' = IF ok THEN "attached" ELSE "panicked"
    /\ receiver' = IF ok THEN receiver ELSE "dropped"
    /\ loopPc' = IF ok THEN "recv" ELSE loopPc
    /\ UNCHANGED << answered, watchVars, errors, exitVars, producerVars >>
    /\ UNCHANGED << results, todo, tasks, atRecv, batches, spawned, executed >>
    /\ UNCHANGED << now, settingsVars, schedVars, blinkVars, drawVars >>

\* Bridge::queue_command: send on the unbounded channel, and panic when the
\* send fails.  Each command carries, for the record, its arrival number and
\* where the dispatch loop was when it was queued.
QueueCommand(resize) ==
    LET command == [id |-> sent + 1, resize |-> resize,
                    phase |-> loopPc, nbatches |-> Len(batches)]
        r == send(queue, receiver, loopPc, command)
    IN  /\ ~exited
        /\ sent < MaxCommands
        /\ queue' = r.queue
        /\ sent' = IF r.result = "Ok" THEN sent + 1 ELSE sent
        /\ sendCall' = IF r.result = "Ok" THEN "returned" ELSE "panicked"
        /\ UNCHANGED << startVars, watchVars, errors, exitVars, receiver, loopVars >>
        /\ UNCHANGED << now, settingsVars, schedVars, blinkVars, drawVars >>

\* drain: receiver.recv().await returns the first command.
Recv ==
    /\ ~exited
    /\ loopPc = "recv"
    /\ queue # << >>
    /\ results' = << Head(queue) >>
    /\ queue' = Tail(queue)
    /\ atRecv' = { queue[i].id : i \in 1 .. Len(queue) }
    /\ loopPc' = "try_recv"
    /\ UNCHANGED << startVars, watchVars, errors, exitVars, receiver, sent, sendCall,
                    todo, tasks, batches, spawned, executed >>
    /\ UNCHANGED << now, settingsVars, schedVars, blinkVars, drawVars >>

\* drain: receiver.try_recv() returns a command.
TryRecvOk ==
    /\ ~exited
    /\ loopPc = "try_recv"
    /\ queue # << >>
    /\ results' = Append(results, Head(queue))
    /\ queue' = Tail(queue)
    /\ UNCHANGED << startVars, watchVars, errors, exitVars, receiver, sent, sendCall,
                    loopPc, todo, tasks, atRecv, batches, spawned, executed >>
    /\ UNCHANGED << now, settingsVars, schedVars, blinkVars, drawVars >>

\* drain: receiver.try_recv() finds the queue empty; the batch is returned
\* and partitioned.
TryRecvEmpty ==
    /\ ~exited
    /\ loopPc = "try_recv"
    /\ queue = << >>
    /\ batches' = Append(batches, [commands |-> results, atRecv |-> atRecv])
    /\ todo' = dispatch_order(results)
    /\ results' = << >>
    /\ loopPc' = "spawn"
    /\ UNCHANGED << startVars, watchVars, errors, exitVars, receiver, producerVars,
                    tasks, atRecv, spawned, executed >>
    /\ UNCHANGED << now, settingsVars, schedVars, blinkVars, drawVars >>

\* One iteration of the for loop: tokio::spawn of the command's task.  After
\* the last one the loop calls drain again.
Spawn ==
    /\ ~exited
    /\ loopPc = "spawn"
    /\ todo # << >>
    /\ spawned' = Append(spawned, [command |-> Head(todo), batch |-> Len(batches)])
    /\ tasks' = tasks \cup { Head(todo) }
    /\ todo' = Tail(todo)
    /\ loopPc' = IF Tail(todo) = << >> THEN "recv" ELSE "spawn"
    /\ UNCHANGED << startVars, watchVars, errors, exitVars, receiver, producerVars,
                    results, atRecv, batches, executed >>
    /\ UNCHANGED << now, settingsVars, schedVars, blinkVars, drawVars >>

\* A spawned task runs: command.execute(&nvim).
Execute(command) ==
    /\ ~exited
    /\ command \in tasks
    /\ tasks' = tasks \ { command }
    /\ executed' = executed \cup { command.id }
    /\ UNCHANGED << startVars, watchVars, errors, exitVars, receiver, producerVars,
                    loopPc, results, todo, atRecv, batches, spawned >>
    /\ UNCHANGED << now, settingsVars, schedVars, blinkVars, drawVars >>

BridgeSpecInit ==
    /\ now = 0
    /\ SettingsInit({})
    /\ SchedInit
    /\ BridgeInit
    /\ BlinkInit
    /\ DrawInit

BridgeNext ==
    \/ NewChildCmdOk
    \/ NewChildCmdFails
    \/ \E outcome \in IoOutcomes : IoLoopEnds(outcome)
    \/ CloseWatcher
    \/ \E answer \in EvalAnswers : Eval(answer)
    \/ \E ok \in BOOLEAN : SetVar(ok)
    \/ \E ok \in BOOLEAN : UiAttach(ok)
    \/ \E resize \in BOOLEAN : QueueCommand(resize)
    \/ Recv
    \/ TryRecvOk
    \/ TryRecvEmpty
    \/ Spawn
    \/ \E command \in tasks : Execute(command)

BridgeSpec == BridgeSpecInit /\ [][BridgeNext]_vars

\* The tokio runtime runs every task that is ready: the close watcher, the
\* dispatch loop and the command tasks.  Nothing is assumed of the editor
\* process (the answers to start_process) nor of the window system.
BridgeFairness ==
    /\ WF_vars(CloseWatcher)
    /\ WF_vars(Recv)
    /\ WF_vars(TryRecvOk)
    /\ WF_vars(TryRecvEmpty)
    /\ WF_vars(Spawn)
    /\ WF_vars(\E command \in tasks : Execute(command))

\* The bridge with the window system queueing at most FairCommands commands.
BridgeFairNext ==
    \/ NewChildCmdOk
    \/ NewChildCmdFails
    \/ \E outcome \in IoOutcomes : IoLoopEnds(outcome)
    \/ CloseWatcher
    \/ \E answer \in EvalAnswers : Eval(answer)
    \/ \E ok \in BOOLEAN : SetVar(ok)
    \/ \E ok \in BOOLEAN : UiAttach(ok)
    \/ \E resize \in BOOLEAN : sent < FairCommands /\ QueueCommand(resize)
    \/ Recv
    \/ TryRecvOk
    \/ TryRecvEmpty
    \/ Spawn
    \/ \E command \in tasks : Execute(command)

BridgeFairSpec == BridgeSpecInit /\ [][BridgeFairNext]_vars /\ BridgeFairness

\* The range of a sequence.
Range(seq) == { seq[i] : i \in 1 .. Len(seq) }

\* The commands spawned for batch b, in spawn order.
SpawnedOf(b) ==
    LET OfBatch(e) == e.batch = b
        entries == SelectSeq(spawned, OfBatch)
    IN  [i \in 1 .. Len(entries) |-> entries[i].command]

\* The dispatch loop is through with batch b.
BatchDone(b) == b < Len(batches) \/ (b = Len(batches) /\ loopPc # "spawn")

\* C1: of every drained batch, the only resize a task is ever spawned for is
\* the resize that arrived last in the batch, no command is spawned twice and
\* none that is not of the batch; once the loop is through with the batch,
\* that last resize (if the batch has a resize) and every non-resize command
\* of the batch have been spawned.
C1_LastResizeAndAllOthersDispatched ==
    /\ \A i \in 1 .. Len(spawned) : spawned[i].batch \in 1 .. Len(batches)
    /\ \A b \in 1 .. Len(batches) :
           LET B == batches[b].commands
               D == SpawnedOf(b)
           IN  /\ Cardinality(Range(D)) = Len(D)
               /\ Range(D) \subseteq Range(B)
               /\ SelectSeq(D, is_resize) \in { << >>, last(SelectSeq(B, is_resize)) }
               /\ BatchDone(b) =>
                      /\ SelectSeq(D, is_resize) = last(SelectSeq(B, is_resize))
                      /\ Range(SelectSeq(D, is_other)) = Range(SelectSeq(B, is_other))

\* A batch of resize, other, resize that the loop is through with.
C1_Witness ==
    \E b \in 1 .. Len(batches) :
        /\ BatchDone(b)
        /\ Len(batches[b].commands) = 3
        /\ batches[b].commands[1].resize
        /\ ~batches[b].commands[2].resize
        /\ batches[b].commands[3].resize
        /\ SpawnedOf(b) = << batches[b].commands[3], batches[b].commands[2] >>

\* The arrival numbers of the commands of the batches, batch after batch.
RECURSIVE ArrivalOrder(_)
ArrivalOrder(n) ==
    IF n = 0 THEN << >>
    ELSE ArrivalOrder(n - 1)
             \o [i \in 1 .. Len(batches[n].commands) |-> batches[n].commands[i].id]

\* C2: within a batch the resize is spawned before every other command of
\* the batch; every command of an earlier batch is spawned before any command
\* of a later batch, and the batches take the commands in arrival order; a
\* command in the queue when recv() returns is in that drain's batch, and a
\* command queued while batch b is being dispatched is in batch b + 1.
C2_DispatchOrdering ==
    /\ \A j \in 1 .. Len(spawned) :
           /\ j > 1 => spawned[j - 1].batch <= spawned[j].batch
           /\ spawned[j].command.resize =>
                  j = 1 \/ spawned[j - 1].batch < spawned[j].batch
    /\ \A j \in 1 .. Len(spawned) : spawned[j].batch = Len(batches) \/ BatchDone(spawned[j].batch)
    /\ LET order == ArrivalOrder(Len(batches))
       IN  \A i \in 1 .. Len(order) : order[i] = i
    /\ \A b \in 1 .. Len(batches) :
           /\ batches[b].atRecv \subseteq { c.id : c \in Range(batches[b].commands) }
           /\ \A c \in Range(batches[b].commands) :
                  c.phase = "spawn" => b = c.nbatches + 1

\* Two batches: the first is other, resize, both in the queue when recv()
\* returned, and was spawned resize first; the second holds a command queued
\* while the first was being dispatched, spawned after both.
C2_Witness ==
    /\ Len(batches) = 2
    /\ Len(spawned) = 3
    /\ Cardinality(batches[1].atRecv) = 2
    /\ ~batches[1].commands[1].resize
    /\ batches[1].commands[2].resize
    /\ spawned[1].command = batches[1].commands[2]
    /\ spawned[2].command = batches[1].commands[1]
    /\ batches[2].commands[1].phase = "spawn"
    /\ spawned[3].command = batches[2].commands[1]

\* What the close watcher has reported.
WatcherReports == Range(errors) \cap { JoinErrorReport, IoErrorReport }

C12_WrongVersionExitsBeforeAttach ==
    (IsSome(answered) /\ Unwrap(answered) # Some(Integer(1))) =>
        /\ CompatibilityError \in Range(errors)
        /\ exited
        /\ exit_code = Some(0)
        /\ requests = << "eval" >>
        /\ startPc = "eval"
        /\ loopPc = "not_started"
        /\ batches = << >>
        /\ spawned = << >>

\* The query was answered by the boolean true, with a command waiting in
\* the queue, and the application has ended.
C12_Witness ==
    /\ answered = Some(Some(Boolean(TRUE)))
    /\ queue # << >>
    /\ exited
    /\ errors = << CompatibilityError >>
    /\ requests = << "eval" >>

\* A step in which queue_command was called.
QueueCommandCalled == sent' # sent \/ sendCall' # sendCall

\* C13: while the application runs a queue_command call is always possible
\* (it waits for nothing); a call made while the receiver exists, whatever
\* the startup and the dispatch loop are doing and however long the queue
\* is, returns with the command appended at the end of the queue; a call
\* panics, leaving the queue as it was, exactly when the receiver had been
\* dropped.
C13_QueueCommandNeverBlocks ==
    /\ []((~exited /\ sent < MaxCommands) =>
              ENABLED (\E resize \in BOOLEAN : QueueCommand(resize)))
    /\ [][QueueCommandCalled =>
              IF receiver = "alive"
              THEN /\ sendCall' = "returned"
                   /\ sent' = sent + 1
                   /\ Len(queue') = Len(queue) + 1
                   /\ SubSeq(queue', 1, Len(queue)) = queue
                   /\ queue'[Len(queue')].id = sent'
              ELSE /\ sendCall' = "panicked"
                   /\ queue' = queue
                   /\ sent' = sent]_vars
    /\ [](sendCall = "panicked" => receiver = "dropped")

\* A command was queued before the dispatch loop started and has been
\* drained, and the last two calls, made while its batch was being
\* dispatched, returned: their commands are in the queue.
C13_Witness ==
    /\ sendCall = "returned"
    /\ receiver = "alive"
    /\ loopPc = "spawn"
    /\ Len(batches) = 1
    /\ batches[1].commands[1].phase = "not_started"
    /\ Len(queue) = 2
    /\ queue[1].phase = "spawn"
    /\ queue[2].phase = "spawn"
    /\ queue[2].id = sent

\* The number of entries of a sequence of commands with arrival number id.
Occurrences(commands, id) ==
    Cardinality({ i \in 1 .. Len(commands) : commands[i].id = id })

\* The commands drained so far, batch after batch.
RECURSIVE Drained(_)
Drained(n) == IF n = 0 THEN << >> ELSE Drained(n - 1) \o batches[n].commands

\* The commands a task was spawned for.
Dispatched == [i \in 1 .. Len(spawned) |-> spawned[i].command]

\* C14: every command queue_command accepted is in exactly one place: still
\* in the queue, or taken off it once (in drain's results or in one drained
\* batch), and nothing else is; a task is spawned at most once for a command,
\* and exactly once for a non-resize command of a batch the loop is through
\* with.  Once the dispatch loop is started, every accepted command is
\* eventually drained and every accepted non-resize command eventually
\* dispatched, unless the application ends first.
C14_EveryCommandConsumedOnce ==
    /\ [](\A id \in 1 .. MaxCommands :
              Occurrences(queue, id) + Occurrences(results, id)
                  + Occurrences(Drained(Len(batches)), id)
                  = IF id <= sent THEN 1 ELSE 0)
    /\ [](\A id \in 1 .. MaxCommands : Occurrences(Dispatched, id) <= 1)
    /\ [](\A b \in 1 .. Len(batches) :
              BatchDone(b) =>
                  \A c \in Range(batches[b].commands) :
                      ~c.resize => Occurrences(Dispatched, c.id) = 1)
    /\ \A id \in 1 .. MaxCommands :
           (id <= sent /\ loopPc # "not_started") ~>
               \/ exited
               \/ \E c \in Range(Drained(Len(batches))) :
                      /\ c.id = id
                      /\ ~c.resize => Occurrences(Dispatched, id) = 1

\* Two non-resize commands, the first queued before the dispatch loop
\* started, the second while the batch of the first was being dispatched:
\* both have been dispatched, each in its batch, and have run.
C14_Witness ==
    /\ sent = 2
    /\ Len(spawned) = 2
    /\ \A i \in 1 .. 2 : spawned[i].command.id = i /\ ~spawned[i].command.resize
    /\ spawned[1].command.phase = "not_started"
    /\ spawned[2].command.phase = "spawn"
    /\ spawned[1].batch = 1
    /\ spawned[2].batch = 2
    /\ queue = << >>
    /\ executed = { 1, 2 }

\* The commands of a sequence that were queued before the dispatch loop was
\* spawned.
QueuedDuringStartup(commands) ==
    { c \in Range(commands) : c.phase = "not_started" }

\* C21: a command is taken off the queue, and a task spawned for one, only
\* after the version query was answered by the integer 1 and set_var and
\* ui_attach succeeded; until the dispatch loop is spawned every accepted
\* command is in the queue, in arrival order; the commands queued during
\* startup are drained in the first batch and in no other, and none of them
\* is left behind once the first batch is drained; when the version check,
\* set_var or ui_attach failed, nothing is ever drained or spawned.
C21_NoDispatchBeforeAttach ==
    /\ (results # << >> \/ batches # << >> \/ spawned # << >> \/ tasks # {}
            \/ executed # {} \/ loopPc # "not_started") =>
           /\ startPc = "attached"
           /\ requests = << "eval", "set_var", "ui_attach" >>
           /\ answered = Some(Some(Integer(1)))
    /\ loopPc = "not_started" =>
           /\ Len(queue) = sent
           /\ \A i \in 1 .. Len(queue) : queue[i].id = i /\ queue[i].phase = "not_started"
    /\ \A b \in 1 .. Len(batches) :
           QueuedDuringStartup(batches[b].commands) # {} => b = 1
    /\ Len(batches) >= 1 =>
           QueuedDuringStartup(queue) \cup QueuedDuringStartup(results) = {}
    /\ \A i \in 1 .. Len(spawned) :
           spawned[i].command.phase = "not_started" => spawned[i].batch = 1
    /\ (startPc = "panicked" \/ (IsSome(answered) /\ answered # Some(Some(Integer(1))))) =>
           /\ loopPc = "not_started"
           /\ results = << >> /\ batches = << >> /\ spawned = << >>
           /\ tasks = {} /\ executed = {}

\* Two non-resize commands were queued during startup and a third after the
\* loop was spawned: the first batch is the two, both have been dispatched
\* and have run, and the third is in the second batch.
C21_Witness ==
    /\ startPc = "attached"
    /\ Len(batches) = 2
    /\ Len(batches[1].commands) = 2
    /\ QueuedDuringStartup(batches[1].commands) = Range(batches[1].commands)
    /\ ~batches[1].commands[1].resize
    /\ ~batches[1].commands[2].resize
    /\ Len(batches[2].commands) = 1
    /\ batches[2].commands[1].phase # "not_started"
    /\ { spawned[i].command.id : i \in 1 .. Len(spawned) } = { 1, 2 }
    /\ executed = { 1, 2 }

\* ------------------------------------------------------------------------
\* The blink state machine driven by arbitrary cursors
\* ------------------------------------------------------------------------

\* Option<u64> blink delays.
Delays == { None } \cup { Some(d) : d \in 0 .. MaxDelay }

BlinkCursors ==
    { Cursor(<< 0, 0 >>, "Block", blinkwait, blinkon, blinkoff) :
          blinkwait \in Delays, blinkon \in Delays, blinkoff \in Delays }

\* The record kept of an update_status(new_cursor) call that returned r.
DoRecordBlink(new_cursor, r) ==
    /\ blinkCall' = [op |-> "update_status", cursor |-> Some(new_cursor), ret |-> r.ret,
                     scheduled |-> r.scheduled, at |-> now, found |-> blink_status.state]
    /\ first' = IF first.calls = 0
                THEN [calls |-> 1, at |-> now, unchanged |-> TRUE]
                ELSE IF first.unchanged /\ blink_status.previous_cursor = Some(new_cursor)
                     THEN [calls |-> 2, at |-> first.at, unchanged |-> TRUE]
                     ELSE [calls |-> 2, at |-> 0, unchanged |-> FALSE]

\* BlinkStatus::update_status(new_cursor), with its call of schedule().
UpdateStatus(new_cursor) ==
    LET r == update_status(blink_status, new_cursor, now) IN
    /\ blink_status' = r.status
    /\ DoRecordBlink(new_cursor, r)
    /\ IF IsSome(r.scheduled)
       THEN DoSchedule(Unwrap(r.scheduled))
       ELSE UNCHANGED scheduled_frame
    /\ UNCHANGED << frames_queued, call, requested, grant, stepVars >>
    /\ UNCHANGED << now, settingsVars, bridgeVars, drawVars >>

BlinkSpecInit ==
    /\ now = 0
    /\ SettingsInit({})
    /\ SchedInit
    /\ BridgeInit
    /\ BlinkInit
    /\ DrawInit

BlinkNext ==
    \/ Tick
    \/ \E new_cursor \in BlinkCursors : UpdateStatus(new_cursor)

BlinkSpec == BlinkSpecInit /\ [][BlinkNext]_vars

\* The cursor of the last update_status call.
CalledCursor == Unwrap(blinkCall.cursor)

\* wait, on and off delays are all present and positive.
PositiveDelays(cursor) ==
    /\ IsSome(cursor.blinkwait) /\ Unwrap(cursor.blinkwait) > 0
    /\ IsSome(cursor.blinkon) /\ Unwrap(cursor.blinkon) > 0
    /\ IsSome(cursor.blinkoff) /\ Unwrap(cursor.blinkoff) > 0

\* C6: for a cursor whose wait, on or off delay is exactly 0, update_status
\* returns true at every call, whatever the phase, the time elapsed and
\* whether or not the cursor changed.
C6_ZeroDelayAlwaysVisible ==
    /\ blinkCall.op = "update_status"
    /\ \/ CalledCursor.blinkwait = Some(0)
       \/ CalledCursor.blinkon = Some(0)
       \/ CalledCursor.blinkoff = Some(0)
    => blinkCall.ret

\* A cursor whose only zero delay is blinkoff, unchanged since the first call,
\* called again in phase Waiting after its wait delay elapsed: true is returned
\* and the phase is still Waiting.
C6_Witness ==
    /\ blinkCall.op = "update_status"
    /\ CalledCursor.blinkoff = Some(0)
    /\ CalledCursor.blinkwait = Some(1)
    /\ CalledCursor.blinkon = Some(1)
    /\ first.calls = 2
    /\ first.unchanged
    /\ blinkCall.at - first.at >= 2
    /\ blink_status.state = "Waiting"
    /\ blinkCall.ret

\* C7: for a cursor with positive wait, on and off delays that is seen with
\* no prior cursor and stays unchanged, the first update_status call leaves
\* the phase Waiting and returns false, every call made before the wait delay
\* has elapsed since the first call returns false and leaves the phase
\* Waiting, and a call that finds the phase Waiting when at least the wait
\* delay has elapsed moves it to On and returns true.
C7_WaitThenOn ==
    /\ blinkCall.op = "update_status"
    /\ first.unchanged
    /\ PositiveDelays(CalledCursor)
    => /\ first.calls = 1 =>
              blink_status.state = "Waiting" /\ ~blinkCall.ret
       /\ blinkCall.at - first.at < Unwrap(CalledCursor.blinkwait) =>
              blink_status.state = "Waiting" /\ ~blinkCall.ret
       /\ /\ blinkCall.found = "Waiting"
          /\ blinkCall.at - first.at >= Unwrap(CalledCursor.blinkwait)
          => blink_status.state = "On" /\ blinkCall.ret

\* A cursor with wait 2, first seen at time t, called again exactly at t + 2
\* in phase Waiting: the phase is On and true was returned.
C7_Witness ==
    /\ blinkCall.op = "update_status"
    /\ first.unchanged
    /\ first.calls = 2
    /\ PositiveDelays(CalledCursor)
    /\ CalledCursor.blinkwait = Some(2)
    /\ blinkCall.found = "Waiting"
    /\ blinkCall.at - first.at = 2
    /\ blink_status.state = "On"
    /\ blinkCall.ret

\* C8, as claimed: whenever update_status passes a deadline to schedule(), the
\* deadline is last_transition plus the delay of the phase the engine is in
\* when the call returns.  The code adds the delay of the phase the call
\* found, read before the transition.
C8_DeadlineUsesCurrentPhaseDelay ==
    /\ blinkCall.op = "update_status"
    /\ IsSome(blinkCall.scheduled)
    /\ IsSome(blink_delay(blink_status.state, CalledCursor))
    => Unwrap(blinkCall.scheduled) =
           blink_status.last_transition
               + Unwrap(blink_delay(blink_status.state, CalledCursor))

\* A step in which update_status was called.
UpdateStatusCalled == blinkCall' # blinkCall

\* C16: an update_status call whose cursor differs from the last-seen one,
\* or that is the first, leaves the phase On if the cursor's wait delay is
\* absent or zero and Waiting otherwise, the transition time at now and the
\* cursor recorded as last seen; a call with the last-seen cursor leaves the
\* recorded cursor alone and either leaves phase and transition time alone
\* or changes the phase (never setting the time alone, as a reset would).
C16_CursorChangeResetsBlink ==
    [][UpdateStatusCalled =>
          LET new_cursor == Unwrap(blinkCall'.cursor) IN
          IF blink_status.previous_cursor # Some(new_cursor)
          THEN /\ blink_status'.state =
                      IF new_cursor.blinkwait = None \/ new_cursor.blinkwait = Some(0)
                      THEN "On" ELSE "Waiting"
               /\ blink_status'.last_transition = now
               /\ blink_status'.previous_cursor = Some(new_cursor)
          ELSE /\ blink_status'.previous_cursor = blink_status.previous_cursor
               /\ \/ blink_status' = blink_status
                  \/ blink_status'.state # blink_status.state]_vars

\* After the first call, a call at time 2 with a cursor without wait delay
\* found the phase Waiting of another cursor: the phase is On, the
\* transition time is 2 and the cursor is recorded.
C16_Witness ==
    /\ blinkCall.op = "update_status"
    /\ first.calls = 2
    /\ ~first.unchanged
    /\ blinkCall.at = 2
    /\ blinkCall.found = "Waiting"
    /\ CalledCursor.blinkwait = None
    /\ CalledCursor.blinkon = Some(2)
    /\ blink_status.state = "On"
    /\ blink_status.last_transition = 2
    /\ blink_status.previous_cursor = blinkCall.cursor

\* No delay of the cursor is exactly zero.
NoZeroDelay(cursor) ==
    /\ cursor.blinkwait # Some(0)
    /\ cursor.blinkon # Some(0)
    /\ cursor.blinkoff # Some(0)

\* C17: an update_status call with the last-seen cursor, none of whose
\* delays is zero, changes the phase only if the delay of the phase it found
\* is present and has elapsed since the last transition, and then from
\* Waiting to On, from On to Off or from Off to On, setting the transition
\* time to now; a call that leaves the phase alone leaves the transition
\* time alone; no such call enters Waiting; and the call returns true
\* exactly when the phase it leaves is On.
C17_PhaseAdvancesOnlyWhenDelayElapsed ==
    [][UpdateStatusCalled =>
          LET new_cursor == Unwrap(blinkCall'.cursor)
              found == blink_status.state
              left == blink_status'.state
              delay == IF found = "Waiting" THEN new_cursor.blinkwait
                       ELSE IF found = "On" THEN new_cursor.blinkon
                       ELSE new_cursor.blinkoff
          IN  blink_status.previous_cursor = Some(new_cursor) /\ NoZeroDelay(new_cursor) =>
                  /\ left # found =>
                         /\ delay # None
                         /\ now - blink_status.last_transition >= delay[1]
                         /\ << found, left >> \in
                                { << "Waiting", "On" >>, << "On", "Off" >>, << "Off", "On" >> }
                         /\ blink_status'.last_transition = now
                  /\ left = found => blink_status' = blink_status
                  /\ left = "Waiting" => found = "Waiting"
                  /\ blinkCall'.ret <=> left = "On"]_vars

\* A cursor with positive delays, unchanged since the first call, was found
\* in phase Off when its off delay had elapsed: the phase is On again, the
\* transition time is the time of the call and true was returned.
C17_Witness ==
    /\ blinkCall.op = "update_status"
    /\ first.unchanged
    /\ first.calls = 2
    /\ PositiveDelays(CalledCursor)
    /\ blinkCall.found = "Off"
    /\ blink_status.state = "On"
    /\ blink_status.last_transition = blinkCall.at
    /\ blinkCall.ret

\* ------------------------------------------------------------------------
\* CursorRenderer::draw, called once per frame
\* ------------------------------------------------------------------------

LastRow == GridHeight - 1

\* The cursors the editor hands to draw, each with whether the cell right of
\* it is the second half of a double-width character.
DrawInputs ==
    { [cursor |-> Cursor(<< 0, 0 >>, "Block", None, None, None), is_double |-> FALSE],
      [cursor |-> Cursor(<< 1, 1 >>, "Block", None, None, None), is_double |-> TRUE],
      [cursor |-> Cursor(<< 0, LastRow >>, "Block", None, None, None), is_double |-> FALSE],
      [cursor |-> Cursor(<< 1, LastRow >>, "Vertical", Some(1), Some(2), Some(1)),
       is_double |-> FALSE],
      [cursor |-> [Cursor(<< 1, 0 >>, "Horizontal", Some(1), Some(1), Some(2))
                       EXCEPT !.cell_percentage = Some(250)],
       is_double |-> FALSE] }

\* draw(cursor, ...), with the calls of schedule() and queue_next_frame() it
\* makes.  The frame takes one millisecond.
Draw(cursor, is_double) ==
    LET blink == update_status(blink_status, cursor, now)
        placed == draw_position(previous_position, command_line_delay,
                                cursor.position, GridHeight)
        moved == draw_corners(corners, cursor, placed.previous_position, is_double)
        animating == \E i \in 1 .. Len(moved.reported) : moved.reported[i]
        queued == needs_next_frame(animating, placed.command_line_delay)
    IN  /\ draws < MaxDraws
        /\ draws' = draws + 1
        /\ now' = now + 1
        /\ blink_status' = blink.status
        /\ DoRecordBlink(cursor, blink)
        /\ IF IsSome(blink.scheduled)
           THEN DoSchedule(Unwrap(blink.scheduled))
           ELSE UNCHANGED scheduled_frame
        /\ previous_position' = placed.previous_position
        /\ command_line_delay' = placed.command_line_delay
        /\ corners' = moved.corners
        /\ IF queued
           THEN DoQueueNextFrame
           ELSE UNCHANGED << frames_queued, grant >>
        /\ drawCall' = [op |-> "draw", cursor |-> Some(cursor),
                        reported |-> moved.reported, queued |-> queued,
                        delay |-> command_line_delay]
        /\ run' = IF cursor.position[2] # LastRow
                  THEN [n |-> 0, from |-> << 0, 0 >>]
                  ELSE IF run.n = 0
                       THEN [n |-> 1, from |-> previous_position]
                       ELSE [run EXCEPT !.n = @ + 1]
        /\ UNCHANGED << call, requested, stepVars >>
        /\ UNCHANGED << settingsVars, bridgeVars >>

DrawSpecInit ==
    /\ now = 0
    /\ SettingsInit({})
    /\ SchedInit
    /\ BridgeInit
    /\ BlinkInit
    /\ DrawInit

DrawNext == \E input \in DrawInputs : Draw(input.cursor, input.is_double)

DrawSpec == DrawSpecInit /\ [][DrawNext]_vars

\* The cursor of the last draw call.
DrawnCursor == Unwrap(drawCall.cursor)

\* C9: when the cursor's row becomes the last grid row while the drawn row R
\* differs from it, and the cursor then stays on the last row, draw calls 1
\* to 4 leave the drawn position where it was, at row R, and draw call 5 sets
\* it to the cursor's position.
C9_CommandLineDelayFiveFrames ==
    /\ drawCall.op = "draw"
    /\ run.n >= 1
    /\ run.from[2] # LastRow
    => /\ run.n \in 1 .. 4 => previous_position = run.from
       /\ run.n = 5 => previous_position = DrawnCursor.position

\* From drawn position (1, 1), five draw calls in a row on the last row, the
\* fifth at column 1: the drawn position is the cursor's.
C9_Witness ==
    /\ drawCall.op = "draw"
    /\ run.n = 5
    /\ run.from = << 1, 1 >>
    /\ DrawnCursor.position = << 1, LastRow >>
    /\ previous_position = << 1, LastRow >>

\* C10: at the end of every draw call, if the update of any of the four
\* corners returned true or the command-line delay counter is not zero, the
\* call has called queue_next_frame(), which left the frame credit at the
\* extra buffer frames setting.
C10_AnimatingQueuesNextFrame ==
    /\ drawCall.op = "draw"
    /\ \/ \E i \in 1 .. Len(drawCall.reported) : drawCall.reported[i]
       \/ command_line_delay # 0
    => /\ drawCall.queued
       /\ frames_queued = settings.extra_buffer_frames.value
       /\ grant.n = settings.extra_buffer_frames.value

\* A draw call with the command-line delay at zero in which the updates of
\* some corners returned true and those of the others false.
C10_Witness ==
    /\ drawCall.op = "draw"
    /\ command_line_delay = 0
    /\ Len(drawCall.reported) = 4
    /\ \E i \in 1 .. 4 : drawCall.reported[i]
    /\ \E i \in 1 .. 4 : ~drawCall.reported[i]
    /\ drawCall.queued
    /\ frames_queued = DefaultBufferFrames

\* ------------------------------------------------------------------------
\* The render loop with an unchanged blinking cursor and no other source of
\* redraws, for as long as one likes
\*
\* The code only ever compares instants and adds durations to them, so the
\* instants are kept relative to an origin that slides once the clock is at
\* MaxTime: the clock stays and every stored instant moves back by one
\* millisecond, an instant MaxTime or more in the past staying where it is
\* (MaxTime is longer than every delay).
\* ------------------------------------------------------------------------

\* An instant one millisecond further in the past.
Earlier(instant) == IF instant > 0 THEN instant - 1 ELSE 0

\* A millisecond passes.
Advance ==
    /\ IF now < MaxTime
       THEN /\ now' = now + 1
            /\ UNCHANGED << blink_status, scheduled_frame >>
       ELSE /\ now' = now
            /\ blink_status' =
                   [blink_status EXCEPT !.last_transition = Earlier(@)]
            /\ scheduled_frame' =
                   IF IsSome(scheduled_frame)
                   THEN Some(Earlier(Unwrap(scheduled_frame))) ELSE None
    /\ UNCHANGED << frames_queued, call, requested, grant, stepVars >>
    /\ UNCHANGED << blinkCall, first >>
    /\ UNCHANGED << settingsVars, bridgeVars, drawVars >>

\* The cursors with positive wait, on and off delays, on the first and on
\* the last row of the grid.
BlinkingCursors ==
    { [cursor EXCEPT !.position = position] :
          cursor \in { c \in BlinkCursors : PositiveDelays(c) },
          position \in { << 0, 0 >>, << 1, LastRow >> } }

\* One turn of the render loop: should_draw(), and draw(cursor) when it
\* returned true, with the calls of schedule() and queue_next_frame() that
\* draw makes.  The cursor is the one seen before, if one was.
RenderFrame(cursor) ==
    LET turn == should_draw(frames_queued, scheduled_frame, now)
        blink == update_status(blink_status, cursor, now)
        placed == draw_position(previous_position, command_line_delay,
                                cursor.position, GridHeight)
        moved == draw_corners(corners, cursor, placed.previous_position, FALSE)
        animating == \E i \in 1 .. Len(moved.reported) : moved.reported[i]
        queued == needs_next_frame(animating, placed.command_line_delay)
    IN  /\ blink_status.previous_cursor \in { None, Some(cursor) }
        /\ turn.ret
        /\ blink_status' = blink.status
        /\ scheduled_frame' =
               IF IsSome(blink.scheduled)
               THEN schedule(turn.scheduled_frame, Unwrap(blink.scheduled))
               ELSE turn.scheduled_frame
        /\ previous_position' = placed.previous_position
        /\ command_line_delay' = placed.command_line_delay
        /\ corners' = moved.corners
        /\ IsSome(read_u16(settings.extra_buffer_frames))
        /\ frames_queued' =
               IF queued
               THEN queue_next_frame(turn.frames_queued,
                                     Unwrap(read_u16(settings.extra_buffer_frames)))
               ELSE turn.frames_queued
        /\ UNCHANGED << call, requested, grant, stepVars >>
        /\ UNCHANGED << blinkCall, first, draws, drawCall, run >>
        /\ UNCHANGED << now, settingsVars, bridgeVars >>

RenderLoopInit ==
    /\ now = 0
    /\ SettingsInit({})
    /\ SchedInit
    /\ BridgeInit
    /\ BlinkInit
    /\ DrawInit

RenderLoopNext ==
    \/ Advance
    \/ \E cursor \in BlinkingCursors : RenderFrame(cursor)

\* should_draw() would return true: a turn of the render loop would draw.
WouldDraw == should_draw(frames_queued, scheduled_frame, now).ret

\* Time advances, and the render loop keeps calling should_draw(): a turn
\* that would draw is not put off for ever.  The second conjunct is weak
\* fairness of the turn, WF_vars(\E cursor \in BlinkingCursors :
\* RenderFrame(cursor)), written out with WouldDraw for the turn's being
\* enabled.
RenderLoopFairness ==
    /\ WF_vars(Advance)
    /\ \/ []<>(~WouldDraw)
       \/ []<><<\E cursor \in BlinkingCursors : RenderFrame(cursor)>>_vars

RenderLoopSpec == RenderLoopInit /\ [][RenderLoopNext]_vars /\ RenderLoopFairness

\* update_status has been called.
CursorSeen == IsSome(blink_status.previous_cursor)

\* C22: with an unchanged cursor of positive wait, on and off delays, once
\* update_status has been called a deadline is pending in the scheduler or
\* the frame credit is positive between any two turns of the render loop,
\* and every phase is left: Waiting leads to On, On to Off, Off to On.
C22_BlinkNeverStalls ==
    /\ [](CursorSeen => (IsSome(scheduled_frame) \/ frames_queued > 0))
    /\ (CursorSeen /\ blink_status.state = "Waiting") ~> (blink_status.state = "On")
    /\ (CursorSeen /\ blink_status.state = "On") ~> (blink_status.state = "Off")
    /\ (CursorSeen /\ blink_status.state = "Off") ~> (blink_status.state = "On")

\* A cursor with on 1 ms and off 2 ms is in phase Off, the corners are at
\* rest and the frame credit is used up: the pending deadline, not yet
\* elapsed, is all that brings the next draw.
C22_Witness ==
    /\ CursorSeen
    /\ Unwrap(blink_status.previous_cursor).blinkon = Some(1)
    /\ Unwrap(blink_status.previous_cursor).blinkoff = Some(2)
    /\ blink_status.state = "Off"
    /\ frames_queued = 0
    /\ IsSome(scheduled_frame)
    /\ Unwrap(scheduled_frame) >= now

\* A step in which draw was called.
DrawCalled == draws' # draws

\* C18: a draw call whose cursor is not on the last grid row, or is on the
\* row of the position drawn before the call, sets the drawn position to the
\* cursor's position and the command-line delay counter to 0, whatever the
\* counter was.
C18_OtherRowUpdatesImmediately ==
    [][DrawCalled =>
          LET target == Unwrap(drawCall'.cursor).position IN
          (target[2] # GridHeight - 1 \/ target[2] = previous_position[2]) =>
              /\ previous_position' = target
              /\ command_line_delay' = 0]_vars

\* A draw call that found the counter at 3 and whose cursor had left the
\* last row for another column of another row: the drawn position is the
\* cursor's and the counter is 0.
C18_Witness ==
    /\ drawCall.op = "draw"
    /\ drawCall.delay = 3
    /\ DrawnCursor.position = << 1, 0 >>
    /\ previous_position = << 1, 0 >>
    /\ command_line_delay = 0

====
